---- MODULE Spec2Model ----
(***************************************************************************)
(* OverlappingIntervalsIndex                                               *)
(* (packages/dds/sequence/src/intervalIndex/overlappingIntervalsIndex.ts)  *)
(* as a state machine: the interval tree it owns, and one action per       *)
(* public method.  The index methods are translated from that file; the    *)
(* collaborators it imports (normalizeSequencePlace, the interval          *)
(* comparisons, IntervalTree and the balanced tree under it) are modelled  *)
(* from the written specification of the component.                        *)
(***************************************************************************)
EXTENDS Integers, Sequences, FiniteSets, TLC

\* Largest resolved offset of the sequence (offsets are 0 .. MaxPos).
MaxPos == 1

\* Largest number of intervals held by the index at one time.
MaxStored == 3

Offsets == 0 .. MaxPos

Sides == {"Before", "After"}

(***************************************************************************)
(* Positions                                                               *)
(***************************************************************************)

\* SequencePlace as the caller writes it: a number, "start", "end", or an
\* interior place {pos, side}.
PlainPlaces == {<<"number", n>> : n \in Offsets} \cup {<<"start">>, <<"end">>}

InteriorPlaces == {<<"interior", n, s>> : n \in Offsets, s \in Sides}

SequencePlaces == PlainPlaces \cup InteriorPlaces

\* An optional argument that was not supplied.
undefined == <<"undefined">>

\* Canonical (pos, side) form of a place.
normalizeSequencePlace(place) ==
    CASE place[1] = "number" -> [pos |-> place[2], side |-> "Before"]
      [] place[1] = "start" -> [pos |-> -1, side |-> "After"]
      [] place[1] = "end" -> [pos |-> -1, side |-> "Before"]
      [] OTHER -> [pos |-> place[2], side |-> place[3]]

NormalPlaces == {normalizeSequencePlace(p) : p \in SequencePlaces}

\* (-1, After) is the start of the sequence, (-1, Before) its end.
IsSequenceStart(p) == p.pos = -1 /\ p.side = "After"

IsSequenceEnd(p) == p.pos = -1 /\ p.side = "Before"

\* Three-way comparison of two places in the position order: the sequence
\* start sorts before every resolved offset, the sequence end after every
\* resolved offset, resolved places by offset and then Before < After.
comparePlaces(a, b) ==
    IF a = b THEN 0
    ELSE IF IsSequenceStart(a) \/ IsSequenceEnd(b) THEN -1
    ELSE IF IsSequenceEnd(a) \/ IsSequenceStart(b) THEN 1
    ELSE IF a.pos < b.pos THEN -1
    ELSE IF a.pos > b.pos THEN 1
    ELSE IF a.side = "Before" THEN -1 ELSE 1

(***************************************************************************)
(* Intervals                                                               *)
(***************************************************************************)

\* helpers.create(id, start, end, client, intervalType)
create(id, start, end, intervalType) ==
    [id |-> id,
     start |-> normalizeSequencePlace(start),
     end |-> normalizeSequencePlace(end),
     intervalType |-> intervalType]

compareStart(a, b) == comparePlaces(a.start, b.start)

compareEnd(a, b) == comparePlaces(a.end, b.end)

\* start-major, end-minor
compare(a, b) ==
    IF compareStart(a, b) # 0 THEN compareStart(a, b) ELSE compareEnd(a, b)

\* Overlap predicate: a.start <= b.end and a.end >= b.start.
overlaps(a, b) ==
    comparePlaces(a.start, b.end) <= 0 /\ comparePlaces(a.end, b.start) >= 0

\* The interval objects a caller can own and register: one object "a" for
\* every start <= end, and a second object "b" with the same endpoints for
\* every interval over resolved offsets.
Intervals ==
    {i \in {create("a", s, e, "Persistent") : s \in PlainPlaces, e \in PlainPlaces}
            \cup {create("b", <<"number", m>>, <<"number", n>>, "Persistent") :
                    m \in Offsets, n \in Offsets} :
        comparePlaces(i.start, i.end) <= 0}

\* Interval objects told apart by their id alone, so that they stay distinct
\* when edits of the sequence bring their endpoints together.
AnchoredIntervals ==
    {i \in {create(id, s, e, "Persistent") :
                id \in {"a", "b", "c"}, s \in PlainPlaces, e \in PlainPlaces} :
        comparePlaces(i.start, i.end) <= 0}

\* The edits of the sequence: one element inserted at, or removed from, an
\* offset.
SequenceEdits == [kind : {"insert", "remove"}, at : Offsets]

\* Where the anchor at offset pos resolves once the edit is made: an insert
\* pushes the anchors at or after it up by one, a remove pulls the anchors
\* after it down by one and leaves an anchor on the removed element at the
\* offset of the element that follows.
resolveOffset(pos, edit) ==
    IF edit.kind = "insert"
    THEN (IF pos >= edit.at THEN pos + 1 ELSE pos)
    ELSE (IF pos > edit.at THEN pos - 1 ELSE pos)

\* A position after the edit; the sentinels do not move.
resolvePlace(place, edit) ==
    IF place.pos = -1 THEN place
    ELSE [place EXCEPT !.pos = resolveOffset(place.pos, edit)]

\* An interval object after the edit: the same object, its endpoints resolved
\* anew.
resolveInterval(interval, edit) ==
    [interval EXCEPT !.start = resolvePlace(interval.start, edit),
                     !.end = resolvePlace(interval.end, edit)]

\* The probes a caller can build for itself with the same helper the queries
\* use, and then hand to add.
TransientIntervals ==
    {i \in {create("transient", s, e, "Transient") :
                s \in PlainPlaces, e \in PlainPlaces} :
        comparePlaces(i.start, i.end) <= 0}

(***************************************************************************)
(* IntervalTree: a balanced search tree ordered by compare.  The tree is   *)
(* kept as an arena in key order; the subtree over the slots lo .. hi has  *)
(* its root at the middle slot, the slots below it form its left subtree   *)
(* and the slots above it its right subtree.                               *)
(***************************************************************************)

Root(lo, hi) == (lo + hi) \div 2

\* The keys of a tree, or the elements of an array.
Range(s) == {s[n] : n \in 1 .. Len(s)}

isEmpty(tree) == Len(tree) = 0

\* The slot a new key is linked at: descend from the root, left when the key
\* compares below the node and right otherwise (ties go to the right).
RECURSIVE putSlot(_, _, _, _)
putSlot(tree, x, lo, hi) ==
    IF lo > hi THEN lo
    ELSE IF compare(x, tree[Root(lo, hi)]) < 0
         THEN putSlot(tree, x, lo, Root(lo, hi) - 1)
         ELSE putSlot(tree, x, Root(lo, hi) + 1, hi)

\* IntervalTree.put
put(tree, x) ==
    LET k == putSlot(tree, x, 1, Len(tree))
    IN  SubSeq(tree, 1, k - 1) \o <<x>> \o SubSeq(tree, k, Len(tree))

\* IntervalTree.removeExisting: unlinks the node holding exactly x.
removeExisting(tree, x) == SelectSeq(tree, LAMBDA i : i # x)

\* How IntervalTree.removeExisting can end.  With x in the tree it removes it.
\* With x absent it leaves the tree alone and either says nothing or reports
\* that x was not found, which reaches the caller of the index only if it is
\* reported by an exception.
removeExistingOutcomes(tree, x) ==
    IF x \in Range(tree) THEN {"removed"} ELSE {"no-op", "not found"}

\* In-order walk of the subtree lo .. hi: the keys in the order visited.
RECURSIVE walk(_, _, _)
walk(tree, lo, hi) ==
    IF lo > hi THEN <<>>
    ELSE walk(tree, lo, Root(lo, hi) - 1)
            \o <<tree[Root(lo, hi)]>>
            \o walk(tree, Root(lo, hi) + 1, hi)

\* Reverse in-order walk of the subtree lo .. hi.
RECURSIVE walkBackward(_, _, _)
walkBackward(tree, lo, hi) ==
    IF lo > hi THEN <<>>
    ELSE walkBackward(tree, Root(lo, hi) + 1, hi)
            \o <<tree[Root(lo, hi)]>>
            \o walkBackward(tree, lo, Root(lo, hi) - 1)

\* IntervalTree.map: the keys handed to the visitor, in order.
treeMap(tree) == walk(tree, 1, Len(tree))

\* IntervalTree.mapBackward
treeMapBackward(tree) == walkBackward(tree, 1, Len(tree))

\* Number of keys of an in-order visit up to and including the first one in
\* stop (all of them when none is).
RECURSIVE visitedUntil(_, _, _)
visitedUntil(visit, stop, n) ==
    IF n > Len(visit) THEN Len(visit)
    ELSE IF visit[n] \in stop THEN n
    ELSE visitedUntil(visit, stop, n + 1)

\* IntervalTree.mapUntil: in-order traversal that ends the first time the
\* predicate (membership in stop) returns true.
treeMapUntil(tree, stop) ==
    SubSeq(treeMap(tree), 1, visitedUntil(treeMap(tree), stop, 1))

\* Largest end among the keys of the subtree lo .. hi (lo <= hi), the
\* augmentation each node carries.
RECURSIVE maxEnd(_, _, _)
maxEnd(tree, lo, hi) ==
    IF lo = hi THEN tree[lo].end
    ELSE LET m == maxEnd(tree, lo + 1, hi)
         IN  IF comparePlaces(tree[lo].end, m) >= 0 THEN tree[lo].end ELSE m

\* A subtree can hold a match only if it is not empty and some key of it
\* ends at or after the probe's start.
continueSubtree(tree, lo, hi, probe) ==
    lo <= hi /\ comparePlaces(maxEnd(tree, lo, hi), probe.start) >= 0

\* Overlap search of the subtree lo .. hi, pruned by the subtree's largest
\* end and by the node's start.
RECURSIVE gather(_, _, _, _)
gather(tree, lo, hi, probe) ==
    IF ~continueSubtree(tree, lo, hi, probe) THEN <<>>
    ELSE LET m == Root(lo, hi)
         IN  gather(tree, lo, m - 1, probe)
                \o (IF overlaps(tree[m], probe) THEN <<tree[m]>> ELSE <<>>)
                \o (IF comparePlaces(tree[m].start, probe.end) <= 0
                    THEN gather(tree, m + 1, hi, probe)
                    ELSE <<>>)

\* IntervalTree.match
match(tree, probe) == gather(tree, 1, Len(tree), probe)

\* Pruned in-order walk: cmp[n] is the probe comparator's result at node n;
\* a node is visited when it compares equal, the left subtree is entered
\* when n is in left and the right subtree when n is in right.
RECURSIVE walkExactMatches(_, _, _, _, _, _)
walkExactMatches(tree, cmp, left, right, lo, hi) ==
    IF lo > hi THEN <<>>
    ELSE LET m == Root(lo, hi)
         IN  (IF m \in left
              THEN walkExactMatches(tree, cmp, left, right, lo, m - 1)
              ELSE <<>>)
                \o (IF cmp[m] = 0 THEN <<tree[m]>> ELSE <<>>)
                \o (IF m \in right
                    THEN walkExactMatches(tree, cmp, left, right, m + 1, hi)
                    ELSE <<>>)

\* RedBlackTree.walkExactMatchesForward
walkExactMatchesForward(tree, cmp, left, right) ==
    walkExactMatches(tree, cmp, left, right, 1, Len(tree))

RECURSIVE walkExactMatchesBack(_, _, _, _, _, _)
walkExactMatchesBack(tree, cmp, left, right, lo, hi) ==
    IF lo > hi THEN <<>>
    ELSE LET m == Root(lo, hi)
         IN  (IF m \in right
              THEN walkExactMatchesBack(tree, cmp, left, right, m + 1, hi)
              ELSE <<>>)
                \o (IF cmp[m] = 0 THEN <<tree[m]>> ELSE <<>>)
                \o (IF m \in left
                    THEN walkExactMatchesBack(tree, cmp, left, right, lo, m - 1)
                    ELSE <<>>)

\* RedBlackTree.walkExactMatchesBackward
walkExactMatchesBackward(tree, cmp, left, right) ==
    walkExactMatchesBack(tree, cmp, left, right, 1, Len(tree))

(***************************************************************************)
(* OverlappingIntervalsIndex.  Every method yields the value it hands back *)
(* and the calls it made on its collaborators, in order.                   *)
(***************************************************************************)

\* invertedSearchInterval comparing the offsets without first checking that
\* both are resolved.
invertedComparingSentinelOffsets(startPos, startSide, endPos, endSide) ==
    \/ endPos < startPos
    \/ (/\ startPos = -1
        /\ startSide = "Before"
        /\ ~(endPos = -1 /\ endSide = "Before"))
    \/ (/\ endPos = -1
        /\ endSide = "After"
        /\ ~(startPos = -1 /\ startSide = "After"))

\* invertedSearchInterval without the test of the resolved offsets.
invertedWithoutOffsetTest(startPos, startSide, endPos, endSide) ==
    \/ (/\ startPos = -1
        /\ startSide = "Before"
        /\ ~(endPos = -1 /\ endSide = "Before"))
    \/ (/\ endPos = -1
        /\ endSide = "After"
        /\ ~(startPos = -1 /\ startSide = "After"))

\* invertedSearchInterval without the test of a start at (-1, Before).
invertedWithoutStartTest(startPos, startSide, endPos, endSide) ==
    \/ (startPos # -1 /\ endPos # -1 /\ endPos < startPos)
    \/ (/\ endPos = -1
        /\ endSide = "After"
        /\ ~(startPos = -1 /\ startSide = "After"))

\* invertedSearchInterval without the test of an end at (-1, After).
invertedWithoutEndTest(startPos, startSide, endPos, endSide) ==
    \/ (startPos # -1 /\ endPos # -1 /\ endPos < startPos)
    \/ (/\ startPos = -1
        /\ startSide = "Before"
        /\ ~(endPos = -1 /\ endSide = "Before"))

\* invertedSearchInterval taking every start at (-1, Before) as inverted,
\* also when the end is the same sentinel.
invertedOnEqualSentinels(startPos, startSide, endPos, endSide) ==
    \/ (startPos # -1 /\ endPos # -1 /\ endPos < startPos)
    \/ (startPos = -1 /\ startSide = "Before")
    \/ (/\ endPos = -1
        /\ endSide = "After"
        /\ ~(startPos = -1 /\ startSide = "After"))

\* invertedSearchInterval reading (-1, Before) as the start of the sequence
\* and (-1, After) as its end.
invertedWithSidesSwapped(startPos, startSide, endPos, endSide) ==
    \/ (startPos # -1 /\ endPos # -1 /\ endPos < startPos)
    \/ (/\ startPos = -1
        /\ startSide = "After"
        /\ ~(endPos = -1 /\ endSide = "After"))
    \/ (/\ endPos = -1
        /\ endSide = "Before"
        /\ ~(startPos = -1 /\ startSide = "Before"))

\* invertedSearchInterval taking the sides into account when the offsets are
\* equal.
invertedComparingSides(startPos, startSide, endPos, endSide) ==
    \/ (/\ startPos # -1
        /\ endPos # -1
        /\ \/ endPos < startPos
           \/ (endPos = startPos /\ startSide = "After" /\ endSide = "Before"))
    \/ (/\ startPos = -1
        /\ startSide = "Before"
        /\ ~(endPos = -1 /\ endSide = "Before"))
    \/ (/\ endPos = -1
        /\ endSide = "After"
        /\ ~(startPos = -1 /\ startSide = "After"))

\* invertedSearchInterval of findOverlappingIntervals
invertedSearchInterval(startPos, startSide, endPos, endSide) ==
    \/ (startPos # -1 /\ endPos # -1 /\ endPos < startPos)
    \/ (/\ startPos = -1
        /\ startSide = "Before"
        /\ ~(endPos = -1 /\ endSide = "Before"))
    \/ (/\ endPos = -1
        /\ endSide = "After"
        /\ ~(startPos = -1 /\ startSide = "After"))

\* findOverlappingIntervals building the probe before the inversion test.
findBuildingProbeFirst(tree, start, end) ==
    LET s == normalizeSequencePlace(start)
        e == normalizeSequencePlace(end)
        inverted == invertedSearchInterval(s.pos, s.side, e.pos, e.side)
    IN  IF inverted
        THEN [value |-> <<>>, calls |-> <<"create">>]
        ELSE IF isEmpty(tree)
        THEN [value |-> <<>>, calls |-> <<"create", "isEmpty">>]
        ELSE [value |-> match(tree, create("transient", start, end, "Transient")),
              calls |-> <<"create", "isEmpty", "match">>]

\* findOverlappingIntervals(start, end)
findOverlappingIntervals(tree, start, end) ==
    LET s == normalizeSequencePlace(start)
        e == normalizeSequencePlace(end)
        inverted == invertedSearchInterval(s.pos, s.side, e.pos, e.side)
    IN  IF inverted
        THEN [value |-> <<>>, calls |-> <<>>]
        ELSE IF isEmpty(tree)
        THEN [value |-> <<>>, calls |-> <<"isEmpty">>]
        ELSE [value |-> match(tree, create("transient", start, end, "Transient")),
              calls |-> <<"isEmpty", "create", "match">>]

\* compareFn comparing starts whether or not end is supplied.
compareFnByStart(tree, transientInterval, end, n) ==
    compareStart(transientInterval, tree[n])

\* compareFn of gatherIterationResults: the probe against the key of node n.
compareFn(tree, transientInterval, end, n) ==
    IF end = undefined
    THEN compareStart(transientInterval, tree[n])
    ELSE compare(transientInterval, tree[n])

\* continueLeftFn leaving the left subtree of a matching node alone.
continueLeftBelow(cmpResult) == cmpResult < 0

continueLeftFn(cmpResult) == cmpResult <= 0

\* continueRightFn leaving the right subtree of a matching node alone.
continueRightAbove(cmpResult) == cmpResult > 0

continueRightFn(cmpResult) == cmpResult >= 0

\* The probe gatherIterationResults builds when start or end is supplied.
gatherProbe(start, end) ==
    create("transient",
           IF start = undefined THEN <<"start">> ELSE start,
           IF end = undefined THEN <<"end">> ELSE end,
           "Transient")

\* gatherWholeTree walking backward when asked to walk forward, and forward
\* when asked to walk backward.
gatherWholeTreeReversed(tree, results, iteratesForward) ==
    IF iteratesForward
    THEN [value |-> results \o treeMapBackward(tree),
          calls |-> <<"isEmpty", "mapBackward">>]
    ELSE [value |-> results \o treeMap(tree),
          calls |-> <<"isEmpty", "map">>]

\* gatherWholeTree walking forward whatever order is asked for.
gatherWholeTreeAlwaysForward(tree, results, iteratesForward) ==
    [value |-> results \o treeMap(tree), calls |-> <<"isEmpty", "map">>]

\* gatherIterationResults, neither start nor end supplied: the whole tree in
\* the order asked for.
gatherWholeTree(tree, results, iteratesForward) ==
    IF iteratesForward
    THEN [value |-> results \o treeMap(tree),
          calls |-> <<"isEmpty", "map">>]
    ELSE [value |-> results \o treeMapBackward(tree),
          calls |-> <<"isEmpty", "mapBackward">>]

\* gatherMatchingEnd keeping the intervals whose start matches the probe's.
gatherMatchingEndByStart(tree, results, iteratesForward, end) ==
    LET transientInterval == gatherProbe(undefined, end)
        matchesStart(interval) == compareStart(transientInterval, interval) = 0
    IN  IF iteratesForward
        THEN [value |-> results \o SelectSeq(treeMap(tree), matchesStart),
              calls |-> <<"isEmpty", "create", "map">>]
        ELSE [value |-> results \o SelectSeq(treeMapBackward(tree), matchesStart),
              calls |-> <<"isEmpty", "create", "mapBackward">>]

\* gatherIterationResults, only end supplied: the whole tree is walked and
\* the intervals whose end matches the probe's are kept.
gatherMatchingEnd(tree, results, iteratesForward, end) ==
    LET transientInterval == gatherProbe(undefined, end)
        matchesEnd(interval) == compareEnd(transientInterval, interval) = 0
    IN  IF iteratesForward
        THEN [value |-> results \o SelectSeq(treeMap(tree), matchesEnd),
              calls |-> <<"isEmpty", "create", "map">>]
        ELSE [value |-> results \o SelectSeq(treeMapBackward(tree), matchesEnd),
              calls |-> <<"isEmpty", "create", "mapBackward">>]

\* gatherMatchingStart with an actionFn that pushes the probe in the place of
\* the key of the matching node.
gatherMatchingStartPushingProbe(tree, results, iteratesForward, start, end) ==
    LET transientInterval == gatherProbe(start, end)
        cmp == [n \in 1 .. Len(tree) |->
                    compareFn(tree, transientInterval, end, n)]
        left == {n \in 1 .. Len(tree) : continueLeftFn(cmp[n])}
        right == {n \in 1 .. Len(tree) : continueRightFn(cmp[n])}
        matches == walkExactMatchesForward(tree, cmp, left, right)
    IN  [value |-> results \o [n \in 1 .. Len(matches) |-> transientInterval],
         calls |-> <<"isEmpty", "create",
                     IF iteratesForward THEN "walkExactMatchesForward"
                     ELSE "walkExactMatchesBackward">>]

\* gatherMatchingStart walking forward whatever order is asked for.
gatherMatchingStartAlwaysForward(tree, results, iteratesForward, start, end) ==
    LET transientInterval == gatherProbe(start, end)
        cmp == [n \in 1 .. Len(tree) |->
                    compareFn(tree, transientInterval, end, n)]
        left == {n \in 1 .. Len(tree) : continueLeftFn(cmp[n])}
        right == {n \in 1 .. Len(tree) : continueRightFn(cmp[n])}
    IN  [value |-> results \o walkExactMatchesForward(tree, cmp, left, right),
         calls |-> <<"isEmpty", "create", "walkExactMatchesForward">>]

\* gatherIterationResults, start (and possibly end) supplied: the subtrees
\* that may hold the start are walked.
gatherMatchingStart(tree, results, iteratesForward, start, end) ==
    LET transientInterval == gatherProbe(start, end)
        cmp == [n \in 1 .. Len(tree) |->
                    compareFn(tree, transientInterval, end, n)]
        left == {n \in 1 .. Len(tree) : continueLeftFn(cmp[n])}
        right == {n \in 1 .. Len(tree) : continueRightFn(cmp[n])}
    IN  IF iteratesForward
        THEN [value |-> results \o walkExactMatchesForward(tree, cmp, left, right),
              calls |-> <<"isEmpty", "create", "walkExactMatchesForward">>]
        ELSE [value |-> results \o walkExactMatchesBackward(tree, cmp, left, right),
              calls |-> <<"isEmpty", "create", "walkExactMatchesBackward">>]

\* gatherIterationResults emptying the array when the tree is empty.
gatherClearingWhenEmpty(tree, results, iteratesForward, start, end) ==
    IF isEmpty(tree)
    THEN [value |-> <<>>, calls |-> <<"isEmpty">>]
    ELSE IF start = undefined /\ end = undefined
    THEN gatherWholeTree(tree, results, iteratesForward)
    ELSE IF start = undefined
    THEN gatherMatchingEnd(tree, results, iteratesForward, end)
    ELSE gatherMatchingStart(tree, results, iteratesForward, start, end)

\* gatherIterationResults losing end on the way to the walk when start is
\* supplied too.
gatherIgnoringEnd(tree, results, iteratesForward, start, end) ==
    IF isEmpty(tree)
    THEN [value |-> results, calls |-> <<"isEmpty">>]
    ELSE IF start = undefined /\ end = undefined
    THEN gatherWholeTree(tree, results, iteratesForward)
    ELSE IF start = undefined
    THEN gatherMatchingEnd(tree, results, iteratesForward, end)
    ELSE gatherMatchingStart(tree, results, iteratesForward, start, undefined)

\* gatherIterationResults(results, iteratesForward, start?, end?)
gatherIterationResults(tree, results, iteratesForward, start, end) ==
    IF isEmpty(tree)
    THEN [value |-> results, calls |-> <<"isEmpty">>]
    ELSE IF start = undefined /\ end = undefined
    THEN gatherWholeTree(tree, results, iteratesForward)
    ELSE IF start = undefined
    THEN gatherMatchingEnd(tree, results, iteratesForward, end)
    ELSE gatherMatchingStart(tree, results, iteratesForward, start, end)

\* map handing its visitor to mapUntil, which stops at the first interval.
mapStoppingAtFirst(tree) ==
    [value |-> treeMapUntil(tree, Range(tree)), calls |-> <<"mapUntil">>]

\* map(fn): the intervals fn is called with, in order.
map(tree) == [value |-> treeMap(tree), calls |-> <<"map">>]

\* mapUntil going on to the end of the tree whatever fn returns.
mapUntilTheEnd(tree, stop) ==
    [value |-> treeMap(tree), calls |-> <<"mapUntil">>]

\* mapUntil(fn), fn being membership in stop.
mapUntil(tree, stop) == [value |-> treeMapUntil(tree, stop), calls |-> <<"mapUntil">>]

\* remove unlinking every interval that compares equal to the one given.
removeEqualKeys(tree, interval) ==
    SelectSeq(tree, LAMBDA i : compare(i, interval) # 0)

\* remove leaving the tree as it is.
removeNothing(tree, interval) == tree

\* remove(interval)
remove(tree, interval) == removeExisting(tree, interval)

\* add putting the interval in the place of the stored intervals that compare
\* equal to it.
addReplacingEqualKeys(tree, interval) ==
    put(removeEqualKeys(tree, interval), interval)

\* add(interval)
add(tree, interval) == put(tree, interval)

(***************************************************************************)
(* The index and its caller                                                *)
(***************************************************************************)

VARIABLES
    intervalTree,   \* this.intervalTree, in key order
    call,           \* the call that ran last and its arguments
    results,        \* the array that call returned or filled
    calls,          \* the collaborator calls it made
    before,         \* intervalTree as it was when the call began
    registered      \* the intervals added and not since removed

vars == <<intervalTree, call, results, calls, before, registered>>

Stored == Range(intervalTree)

\* What a results array may already hold when it is handed to gather.
PriorInterval == create("a", <<"number", 0>>, <<"number", 0>>, "Persistent")

PriorResults == {<<>>, <<PriorInterval>>}

Idle == [op |-> "idle"]

Init ==
    /\ intervalTree = <<>>
    /\ call = Idle
    /\ results = <<>>
    /\ calls = <<>>
    /\ before = <<>>
    /\ registered = {}

\* Calls are issued by an idle caller; remove may also directly follow add.
Add(interval) ==
    /\ call = Idle
    /\ interval \notin Stored
    /\ Len(intervalTree) < MaxStored
    /\ intervalTree' = add(intervalTree, interval)
    /\ call' = [op |-> "add", interval |-> interval, threw |-> FALSE]
    /\ results' = <<>>
    /\ calls' = <<"put">>
    /\ before' = intervalTree
    /\ registered' = registered \cup {interval}

Remove(interval) ==
    /\ call.op \in {"idle", "add"}
    /\ interval \in Stored
    /\ intervalTree' = remove(intervalTree, interval)
    /\ call' = [op |-> "remove", interval |-> interval, threw |-> FALSE]
    /\ results' = <<>>
    /\ calls' = <<"removeExisting">>
    /\ before' = intervalTree
    /\ registered' = registered \ {interval}

\* remove(interval) for an interval that is not stored: line 178 hands it to
\* removeExisting without looking it up and returns nothing, so the call ends
\* as removeExisting ends.
RemoveAbsent(interval) ==
    /\ call = Idle
    /\ interval \notin Stored
    /\ \E outcome \in removeExistingOutcomes(intervalTree, interval) :
            call' = [op |-> "remove", interval |-> interval,
                     threw |-> outcome = "not found"]
    /\ intervalTree' = remove(intervalTree, interval)
    /\ results' = <<>>
    /\ calls' = <<"removeExisting">>
    /\ before' = intervalTree
    /\ UNCHANGED registered

\* add(interval) for a probe the caller built: line 182 hands it to put
\* without looking at its type.
AddTransient(interval) ==
    /\ call = Idle
    /\ interval \notin Stored
    /\ Len(intervalTree) < MaxStored
    /\ intervalTree' = add(intervalTree, interval)
    /\ call' = [op |-> "add", interval |-> interval, threw |-> FALSE]
    /\ results' = <<>>
    /\ calls' = <<"put">>
    /\ before' = intervalTree
    /\ registered' = registered \cup {interval}

\* add(interval) for an interval object with an id of its own.
AddAnchored(interval) ==
    /\ \A i \in Stored : i.id # interval.id
    /\ Add(interval)

\* The sequence is edited between two calls.  The index has no part in the
\* edit (no method of it is called): every node of the tree stays where it
\* is and its key resolves to the new positions from then on.
EditSequence(edit) ==
    /\ call = Idle
    /\ \A i \in Stored :
            /\ resolvePlace(i.start, edit).pos <= MaxPos
            /\ resolvePlace(i.end, edit).pos <= MaxPos
    /\ \E i \in Stored : resolveInterval(i, edit) # i
    /\ intervalTree' = [n \in 1 .. Len(intervalTree) |->
                            resolveInterval(intervalTree[n], edit)]
    /\ registered' = {resolveInterval(i, edit) : i \in registered}
    /\ UNCHANGED <<call, results, calls, before>>

\* add(interval) for an interval that is stored already: line 182 hands it
\* to put without looking it up.
AddAgain(interval) ==
    /\ call = Idle
    /\ interval \in Stored
    /\ Len(intervalTree) < MaxStored
    /\ intervalTree' = add(intervalTree, interval)
    /\ call' = [op |-> "add", interval |-> interval, threw |-> FALSE]
    /\ results' = <<>>
    /\ calls' = <<"put">>
    /\ before' = intervalTree
    /\ UNCHANGED registered

\* findOverlappingIntervals leaving its probe in the tree.
FindStoringProbe(start, end) ==
    /\ call = Idle
    /\ LET r == findOverlappingIntervals(intervalTree, start, end)
       IN  /\ results' = r.value
           /\ calls' = r.calls \o <<"put">>
    /\ call' = [op |-> "findOverlappingIntervals",
                start |-> normalizeSequencePlace(start),
                end |-> normalizeSequencePlace(end)]
    /\ before' = intervalTree
    /\ intervalTree' = put(intervalTree,
                           create("transient", start, end, "Transient"))
    /\ UNCHANGED registered

\* The intervals that meet in a comparison: the ones that can be stored and
\* the probes of the queries, whose endpoints may lie on either side of an
\* offset.
ComparedIntervals ==
    Intervals \cup {create("transient", s, e, "Transient") :
                        s \in SequencePlaces, e \in SequencePlaces}

\* One call of compareFn by the walk of gatherIterationResults, start and end
\* being supplied: the probe against the key of a node of the tree.
CompareFn(transientInterval, key) ==
    /\ call = Idle
    /\ call' = [op |-> "compareFn", probe |-> transientInterval, key |-> key,
                result |-> compareFn(<<key>>, transientInterval, <<"end">>, 1)]
    /\ UNCHANGED <<intervalTree, results, calls, before, registered>>

FindOverlappingIntervals(start, end) ==
    /\ call = Idle
    /\ LET r == findOverlappingIntervals(intervalTree, start, end)
       IN  /\ results' = r.value
           /\ calls' = r.calls
    /\ call' = [op |-> "findOverlappingIntervals",
                start |-> normalizeSequencePlace(start),
                end |-> normalizeSequencePlace(end)]
    /\ before' = intervalTree
    /\ UNCHANGED <<intervalTree, registered>>

GatherIterationResults(prior, iteratesForward, start, end) ==
    /\ call = Idle
    /\ LET r == gatherIterationResults(intervalTree, prior, iteratesForward,
                                       start, end)
       IN  /\ results' = r.value
           /\ calls' = r.calls
    /\ call' = [op |-> "gatherIterationResults",
                prior |-> prior,
                iteratesForward |-> iteratesForward,
                hasStart |-> start # undefined,
                hasEnd |-> end # undefined,
                start |-> normalizeSequencePlace(
                              IF start = undefined THEN <<"start">> ELSE start),
                end |-> normalizeSequencePlace(
                            IF end = undefined THEN <<"end">> ELSE end)]
    /\ before' = intervalTree
    /\ UNCHANGED <<intervalTree, registered>>

Map ==
    /\ call = Idle
    /\ results' = map(intervalTree).value
    /\ calls' = map(intervalTree).calls
    /\ call' = [op |-> "map"]
    /\ before' = intervalTree
    /\ UNCHANGED <<intervalTree, registered>>

MapUntil(stop) ==
    /\ call = Idle
    /\ results' = mapUntil(intervalTree, stop).value
    /\ calls' = mapUntil(intervalTree, stop).calls
    /\ call' = [op |-> "mapUntil", stop |-> stop]
    /\ before' = intervalTree
    /\ UNCHANGED <<intervalTree, registered>>

\* The caller is done with what the last call gave it.
Return ==
    /\ call # Idle
    /\ call' = Idle
    /\ results' = <<>>
    /\ calls' = <<>>
    /\ before' = <<>>
    /\ UNCHANGED <<intervalTree, registered>>

Mutate ==
    \/ \E interval \in Intervals : Add(interval)
    \/ \E interval \in Intervals : Remove(interval)
    \/ Return

Find ==
    \E start \in SequencePlaces, end \in SequencePlaces :
        FindOverlappingIntervals(start, end)

Traverse ==
    \/ \E prior \in PriorResults, iteratesForward \in BOOLEAN :
            GatherIterationResults(prior, iteratesForward, undefined, undefined)
    \/ Map

Next ==
    \/ Mutate
    \/ Find
    \/ Traverse
    \/ \E prior \in PriorResults, iteratesForward \in BOOLEAN,
          start \in SequencePlaces \cup {undefined},
          end \in SequencePlaces \cup {undefined} :
            GatherIterationResults(prior, iteratesForward, start, end)
    \/ \E stop \in {{}} \cup {{i} : i \in Stored} : MapUntil(stop)

\* Every method of the index.
Spec == Init /\ [][Next]_vars

NextFind == Mutate \/ Find

\* The index under add, remove and findOverlappingIntervals.
SpecFind == Init /\ [][NextFind]_vars

NextTraverse == Mutate \/ Traverse

\* The index under add, remove, map and gatherIterationResults with neither
\* start nor end supplied.
SpecTraverse == Init /\ [][NextTraverse]_vars

GatherByEnd ==
    \E iteratesForward \in BOOLEAN, end \in SequencePlaces :
        GatherIterationResults(<<>>, iteratesForward, undefined, end)

GatherByStart ==
    \E iteratesForward \in BOOLEAN, start \in SequencePlaces :
        GatherIterationResults(<<>>, iteratesForward, start, undefined)

GatherByBoth ==
    \E iteratesForward \in BOOLEAN, start \in PlainPlaces, end \in PlainPlaces :
        GatherIterationResults(<<>>, iteratesForward, start, end)

NextGather == Mutate \/ GatherByEnd \/ GatherByStart \/ GatherByBoth

\* The index under add, remove and gatherIterationResults with start, end or
\* both supplied.
SpecGather == Init /\ [][NextGather]_vars

Misuse ==
    \/ \E interval \in Intervals : RemoveAbsent(interval)
    \/ \E interval \in TransientIntervals : AddTransient(interval)

NextMisuse == Mutate \/ Misuse \/ Find

\* The index under add, remove and findOverlappingIntervals when the caller
\* also removes intervals that are not stored and adds probes of its own.
SpecMisuse == Init /\ [][NextMisuse]_vars

NextLookup == Mutate \/ Find \/ Map

\* The index under add, remove, findOverlappingIntervals and map.
SpecLookup == Init /\ [][NextLookup]_vars

NextMapUntil == Mutate \/ \E stop \in SUBSET Stored : MapUntil(stop)

\* The index under add, remove and mapUntil, the predicate being true of any
\* set of stored intervals.
SpecMapUntil == Init /\ [][NextMapUntil]_vars

NextEdit ==
    \/ \E interval \in AnchoredIntervals : AddAnchored(interval)
    \/ \E interval \in AnchoredIntervals : Remove(interval)
    \/ Return
    \/ \E edit \in SequenceEdits : EditSequence(edit)
    \/ \E start \in PlainPlaces, end \in PlainPlaces :
            FindOverlappingIntervals(start, end)
    \/ Map

\* The index under add, remove, findOverlappingIntervals and map while the
\* sequence is edited between the calls.
SpecEdit == Init /\ [][NextEdit]_vars

NextAddAgain == Mutate \/ Map \/ \E interval \in Intervals : AddAgain(interval)

\* The index under add, remove and map when the caller also adds intervals
\* that are stored already.
SpecAddAgain == Init /\ [][NextAddAgain]_vars

Queries ==
    \/ \E start \in PlainPlaces, end \in PlainPlaces :
            FindOverlappingIntervals(start, end)
    \/ \E iteratesForward \in BOOLEAN,
          start \in PlainPlaces \cup {undefined},
          end \in PlainPlaces \cup {undefined} :
            GatherIterationResults(<<>>, iteratesForward, start, end)
    \/ Map
    \/ \E stop \in {{}} \cup {{i} : i \in Stored} : MapUntil(stop)

NextQueries == Mutate \/ Queries

\* The index under add, remove and its four queries, the places given to the
\* queries being offsets and the names of the two ends of the sequence.
SpecQueries == Init /\ [][NextQueries]_vars

GatherIntoFilledArray ==
    \E iteratesForward \in BOOLEAN,
       start \in PlainPlaces \cup {undefined},
       end \in PlainPlaces \cup {undefined} :
        GatherIterationResults(<<PriorInterval>>, iteratesForward, start, end)

NextAppend == Mutate \/ GatherIntoFilledArray

\* The index under add, remove and gatherIterationResults called with an
\* array that holds an element already.
SpecAppend == Init /\ [][NextAppend]_vars

NextCompare ==
    \/ \E transientInterval \in ComparedIntervals, key \in ComparedIntervals :
            CompareFn(transientInterval, key)
    \/ Return

\* The comparison of the index applied to every pair of intervals.
SpecCompare == Init /\ [][NextCompare]_vars

GatherBackwardByStart ==
    \E start \in PlainPlaces, end \in PlainPlaces \cup {undefined} :
        GatherIterationResults(<<>>, FALSE, start, end)

NextBackward == Mutate \/ GatherBackwardByStart

\* The index under add, remove and the backward gatherIterationResults with
\* start supplied, end supplied or not.
SpecBackward == Init /\ [][NextBackward]_vars

(***************************************************************************)
(* Properties                                                              *)
(***************************************************************************)

PlaceLeq(a, b) == comparePlaces(a, b) <= 0

NoDuplicates(s) == Cardinality(Range(s)) = Len(s)

Called(op) == call.op = op

\* The registered intervals that overlap the range [A, B], endpoints included.
Overlapping(A, B) ==
    {i \in registered : PlaceLeq(i.start, B) /\ PlaceLeq(A, i.end)}

\* C1: for a query [A, B] with A <= B in the position order,
\* findOverlappingIntervals returns exactly the registered intervals I with
\* I.start <= B and I.end >= A, each once: none missing, none extra, whatever
\* order they were added in.
OverlapCorrectness ==
    (Called("findOverlappingIntervals") /\ PlaceLeq(call.start, call.end))
        => /\ Range(results) = Overlapping(call.start, call.end)
           /\ NoDuplicates(results)

\* A query [A, B], A <= B, on three intervals of which one is returned only
\* because it ends exactly at A, and one is not returned.
OverlapCorrectnessWitness ==
    /\ Called("findOverlappingIntervals")
    /\ PlaceLeq(call.start, call.end)
    /\ Len(intervalTree) = 3
    /\ \E i \in Range(results) : i.end = call.start /\ i.start # i.end
    /\ \E i \in registered : i \notin Range(results)

\* C2: a query whose offsets are both resolved and whose end offset is below
\* its start offset returns the empty list.
InvertedOffsetsReturnEmpty ==
    (/\ Called("findOverlappingIntervals")
     /\ call.start.pos # -1
     /\ call.end.pos # -1
     /\ call.end.pos < call.start.pos)
        => results = <<>>

\* Such a query on an index holding an interval that spans from the query's
\* end to its start.
InvertedOffsetsWitness ==
    /\ Called("findOverlappingIntervals")
    /\ call.start.pos # -1
    /\ call.end.pos # -1
    /\ call.end.pos < call.start.pos
    /\ results = <<>>
    /\ \E i \in registered : i.start = call.end /\ i.end = call.start

\* C3: a query whose start normalises to (-1, Before) and whose end does not
\* returns the empty list.
StartAtSequenceEndReturnsEmpty ==
    (/\ Called("findOverlappingIntervals")
     /\ call.start = [pos |-> -1, side |-> "Before"]
     /\ call.end # [pos |-> -1, side |-> "Before"])
        => results = <<>>

\* Such a query, its end a resolved offset, on an index holding an interval
\* that reaches from that offset or below it to (-1, Before).
StartAtSequenceEndWitness ==
    /\ Called("findOverlappingIntervals")
    /\ call.start = [pos |-> -1, side |-> "Before"]
    /\ call.end.pos # -1
    /\ results = <<>>
    /\ \E i \in registered : PlaceLeq(i.start, call.end) /\ i.end = call.start

\* C4: a query whose end normalises to (-1, After) and whose start does not
\* returns the empty list.
EndAtSequenceStartReturnsEmpty ==
    (/\ Called("findOverlappingIntervals")
     /\ call.end = [pos |-> -1, side |-> "After"]
     /\ call.start # [pos |-> -1, side |-> "After"])
        => results = <<>>

\* Such a query, its start a resolved offset, on an index holding an interval
\* that reaches from (-1, After) to that offset or above it.
EndAtSequenceStartWitness ==
    /\ Called("findOverlappingIntervals")
    /\ call.end = [pos |-> -1, side |-> "After"]
    /\ call.start.pos # -1
    /\ results = <<>>
    /\ \E i \in registered : i.start = call.end /\ PlaceLeq(call.start, i.end)

SequenceEnd == [pos |-> -1, side |-> "Before"]

SequenceStart == [pos |-> -1, side |-> "After"]

\* C5 as written: a query from (-1, Before) to (-1, Before) on a populated
\* tree runs the overlap search and returns only intervals whose two endpoints
\* are both that sentinel.
EqualSentinelsReturnOnlySentinelIntervals ==
    (/\ Called("findOverlappingIntervals")
     /\ call.start = SequenceEnd
     /\ call.end = SequenceEnd
     /\ registered # {})
        => /\ "match" \in Range(calls)
           /\ \A i \in Range(results) : i.start = SequenceEnd /\ i.end = SequenceEnd

\* C5, amended: a query from (-1, Before) to (-1, Before) on a populated tree
\* is not treated as inverted; the overlap search runs and returns exactly the
\* registered intervals whose end is that sentinel, whatever their start, and
\* so the empty list when every registered interval has resolved endpoints.
EqualSentinelsReturnIntervalsEndingThere ==
    (/\ Called("findOverlappingIntervals")
     /\ call.start = SequenceEnd
     /\ call.end = SequenceEnd
     /\ registered # {})
        => /\ "match" \in Range(calls)
           /\ Range(results) = {i \in registered : i.end = SequenceEnd}
           /\ NoDuplicates(results)
           /\ (\A i \in registered : i.start.pos # -1 /\ i.end.pos # -1)
                => results = <<>>

\* Such a query returning an interval that starts at a resolved offset, on an
\* index that also holds an interval it does not return.
EqualSentinelsWitness ==
    /\ Called("findOverlappingIntervals")
    /\ call.start = SequenceEnd
    /\ call.end = SequenceEnd
    /\ \E i \in Range(results) : i.start.pos # -1
    /\ \E i \in registered : i \notin Range(results)

\* C6: when no interval is registered (none was added yet, or every one added
\* has been removed) findOverlappingIntervals returns the empty list, whatever
\* the two positions.
EmptyIndexReturnsEmpty ==
    (Called("findOverlappingIntervals") /\ registered = {}) => results = <<>>

\* A query that is not inverted, on an index holding nothing.
EmptyIndexWitness ==
    /\ Called("findOverlappingIntervals")
    /\ registered = {}
    /\ calls = <<"isEmpty">>
    /\ PlaceLeq(call.start, call.end)

\* The three shapes of an inverted query range.
InvertedQuery ==
    \/ (call.start.pos # -1 /\ call.end.pos # -1 /\ call.end.pos < call.start.pos)
    \/ (call.start = SequenceEnd /\ call.end # SequenceEnd)
    \/ (call.end = SequenceStart /\ call.start # SequenceStart)

\* C7: an inverted query returns the empty list at once: no probe is built,
\* no call is made on the tree, and the tree is as it was before the call.
InvertedQueryLeavesTreeUntouched ==
    (Called("findOverlappingIntervals") /\ InvertedQuery)
        => /\ results = <<>>
           /\ calls = <<>>
           /\ intervalTree = before
           /\ treeMap(intervalTree) = treeMap(before)

\* An inverted query on an index holding three intervals.
InvertedQueryWitness ==
    /\ Called("findOverlappingIntervals")
    /\ InvertedQuery
    /\ Len(intervalTree) = 3
    /\ calls = <<>>

\* The elements of s counted with multiplicity.
Count(s, x) == Cardinality({n \in 1 .. Len(s) : s[n] = x})

SameMultiset(s, t) ==
    \A x \in Range(s) \cup Range(t) : Count(s, x) = Count(t, x)

\* C8: add(I) of an interval not stored, followed at once by remove(I), leaves
\* the traversal output equal as a multiset to the output before the add.
AddRemoveRoundTrip ==
    [][(/\ Called("add")
        /\ call'.op = "remove"
        /\ call'.interval = call.interval)
            => SameMultiset(treeMap(intervalTree'), treeMap(before))]_vars

\* remove(I) has just undone add(I) on an index that holds another interval
\* with the endpoints of I and one more.
AddRemoveRoundTripWitness ==
    /\ Called("remove")
    /\ call.interval \notin registered
    /\ Len(intervalTree) = 2
    /\ Len(before) = 3
    /\ \E i \in registered : compare(i, call.interval) = 0

\* The part of results the last traversal produced.
Visited ==
    IF Called("gatherIterationResults")
    THEN SubSeq(results, Len(call.prior) + 1, Len(results))
    ELSE results

WholeTreeGather ==
    Called("gatherIterationResults") /\ ~call.hasStart /\ ~call.hasEnd

Sorted(s) == \A m, n \in 1 .. Len(s) : m < n => compare(s[m], s[n]) <= 0

\* C9: the forward traversal (map, or gatherIterationResults forward with no
\* start and no end) yields the intervals in non-decreasing order of compare:
\* by start, and by end among equal starts.
ForwardTraversalSorted ==
    (Called("map") \/ (WholeTreeGather /\ call.iteratesForward))
        => Sorted(Visited)

\* A forward gather over three intervals of which two start at the same place
\* and end at different ones, and two have different starts.
ForwardTraversalSortedWitness ==
    /\ WholeTreeGather
    /\ call.iteratesForward
    /\ Len(Visited) = 3
    /\ compareStart(Visited[1], Visited[2]) = 0
    /\ compareEnd(Visited[1], Visited[2]) < 0
    /\ compareStart(Visited[2], Visited[3]) < 0

\* C10: with neither start nor end supplied gatherIterationResults appends
\* every registered interval exactly once, and map visits every registered
\* interval exactly once.
WholeTraversalVisitsEachOnce ==
    (Called("map") \/ WholeTreeGather)
        => /\ Range(Visited) = registered
           /\ NoDuplicates(Visited)

\* A backward gather into an array that already held an element, over three
\* registered intervals.
WholeTraversalWitness ==
    /\ WholeTreeGather
    /\ ~call.iteratesForward
    /\ call.prior # <<>>
    /\ Cardinality(registered) = 3
    /\ Len(Visited) = 3

Reverse(s) == [n \in 1 .. Len(s) |-> s[Len(s) + 1 - n]]

\* What gatherIterationResults appends to an empty array, walking forward with
\* neither start nor end supplied.
ForwardGather ==
    gatherIterationResults(intervalTree, <<>>, TRUE, undefined, undefined).value

\* C11: on a populated index the backward gather with no start and no end,
\* reversed, holds the same intervals as the forward gather with no start and
\* no end, and is in ascending order like it.
BackwardGatherReversedIsForward ==
    (WholeTreeGather /\ ~call.iteratesForward /\ registered # {})
        => /\ Range(Reverse(Visited)) = Range(ForwardGather)
           /\ Len(Visited) = Len(ForwardGather)
           /\ Sorted(Reverse(Visited))
           /\ Sorted(ForwardGather)

\* A backward gather over three intervals with three different keys.
BackwardGatherWitness ==
    /\ WholeTreeGather
    /\ ~call.iteratesForward
    /\ Len(Visited) = 3
    /\ compare(Visited[1], Visited[2]) > 0
    /\ compare(Visited[2], Visited[3]) > 0

\* A gatherIterationResults call with these of its optional arguments supplied.
GatherCall(hasStart, hasEnd) ==
    /\ Called("gatherIterationResults")
    /\ call.hasStart = hasStart
    /\ call.hasEnd = hasEnd

StartsAt(interval, place) == comparePlaces(interval.start, place) = 0

EndsAt(interval, place) == comparePlaces(interval.end, place) = 0

\* C12: with only end = E supplied, gatherIterationResults appends exactly the
\* stored intervals whose end equals E, each once, ascending when iterating
\* forward and descending when iterating backward.
GatherByEndAppendsMatchingEnds ==
    GatherCall(FALSE, TRUE)
        => /\ Range(Visited) = {i \in registered : EndsAt(i, call.end)}
           /\ NoDuplicates(Visited)
           /\ IF call.iteratesForward
              THEN Sorted(Visited)
              ELSE Sorted(Reverse(Visited))

\* A backward gather by end that kept two intervals with different keys and
\* passed over a third.
GatherByEndWitness ==
    /\ GatherCall(FALSE, TRUE)
    /\ ~call.iteratesForward
    /\ Len(Visited) = 2
    /\ compare(Visited[1], Visited[2]) > 0
    /\ Cardinality(registered) = 3

\* C13: with start = S supplied and end absent, the pruned walk appends
\* exactly the stored intervals whose start equals S, each once, ascending
\* when iterating forward.
GatherByStartAppendsMatchingStarts ==
    GatherCall(TRUE, FALSE)
        => /\ Range(Visited) = {i \in registered : StartsAt(i, call.start)}
           /\ NoDuplicates(Visited)
           /\ call.iteratesForward => Sorted(Visited)

\* A forward gather by start over three intervals that all start at S, so the
\* matches lie on both sides of the matching root.
GatherByStartWitness ==
    /\ GatherCall(TRUE, FALSE)
    /\ call.iteratesForward
    /\ Len(Visited) = 3
    /\ compare(Visited[1], Visited[2]) < 0
    /\ compare(Visited[2], Visited[3]) < 0

\* C14: with both start = S and end = E supplied, gatherIterationResults
\* appends exactly the stored intervals with start S and end E, each once,
\* twins included.
GatherByBothAppendsEqualIntervals ==
    GatherCall(TRUE, TRUE)
        => /\ Range(Visited) = {i \in registered : /\ StartsAt(i, call.start)
                                                   /\ EndsAt(i, call.end)}
           /\ NoDuplicates(Visited)

\* A gather by start and end that appended two twins and passed over a third
\* interval.
GatherByBothWitness ==
    /\ GatherCall(TRUE, TRUE)
    /\ Len(Visited) = 2
    /\ Visited[1].id # Visited[2].id
    /\ Cardinality(registered) = 3

\* C15: remove(I) for an interval that is not stored (never added, or already
\* removed) ends with an error and leaves the tree as it was, also when a twin
\* of I is stored.
RemoveOfAbsentFailsLoudly ==
    (Called("remove") /\ call.interval \notin Range(before))
        => call.threw /\ intervalTree = before

\* C16: add(I) for an interval of the Transient type ends with an error and
\* leaves the tree as it was.
AddOfTransientFailsLoudly ==
    (Called("add") /\ call.interval.intervalType = "Transient")
        => call.threw /\ intervalTree = before

\* Two interval objects with the same start and the same end.
Twins(i, j) == i # j /\ compare(i, j) = 0

\* C17: two registered intervals with the same (start, end) are both in the
\* tree; map visits both; every query [A, B], A <= B, that they overlap
\* returns both; and remove(I) takes exactly I out, leaving its twin.
TwinsAreStoredTogether ==
    /\ \A i, j \in registered : Twins(i, j) =>
            /\ Count(intervalTree, i) = 1
            /\ Count(intervalTree, j) = 1
            /\ Called("map") => Count(results, i) = 1 /\ Count(results, j) = 1
            /\ (/\ Called("findOverlappingIntervals")
                /\ PlaceLeq(call.start, call.end)
                /\ i \in Overlapping(call.start, call.end))
                    => Count(results, i) = 1 /\ Count(results, j) = 1
    /\ (Called("remove") /\ call.interval \in Range(before))
            => /\ Range(intervalTree) = Range(before) \ {call.interval}
               /\ Len(intervalTree) = Len(before) - 1

\* remove(I) has just taken I out of an index that held I, a twin of I and a
\* third interval; the twin is still there.
TwinsWitness ==
    /\ Called("remove")
    /\ Len(before) = 3
    /\ call.interval \in Range(before)
    /\ \E j \in Range(intervalTree) : Twins(j, call.interval)

\* s is the beginning of t.
IsPrefix(s, t) == Len(s) <= Len(t) /\ s = SubSeq(t, 1, Len(s))

OffsetRank(p, first, last) ==
    IF p = first THEN -1 ELSE IF p = last THEN MaxPos + 1 ELSE p.pos

\* findOverlappingIntervals gave up at the inversion test: it asked nothing of
\* the tree, not even whether it is empty.
TreatedAsInverted == Called("findOverlappingIntervals") /\ calls = <<>>

\* C19 as written: (-1, Before) is the start of the sequence and (-1, After)
\* its end, and findOverlappingIntervals treats a query as inverted exactly
\* when, read that way, its end lies before its start.
InversionReadsBeforeAsStart ==
    Called("findOverlappingIntervals")
        => (TreatedAsInverted
                <=> OffsetRank(call.end, SequenceEnd, SequenceStart)
                        < OffsetRank(call.start, SequenceEnd, SequenceStart))

\* C19: (-1, After) is the start of the sequence and (-1, Before) its end, and
\* findOverlappingIntervals treats a query as inverted exactly when, read that
\* way, its end lies before its start.
InversionReadsAfterAsStart ==
    /\ normalizeSequencePlace(<<"start">>) = SequenceStart
    /\ normalizeSequencePlace(<<"end">>) = SequenceEnd
    /\ Called("findOverlappingIntervals")
        => (TreatedAsInverted
                <=> OffsetRank(call.end, SequenceStart, SequenceEnd)
                        < OffsetRank(call.start, SequenceStart, SequenceEnd))

\* A query from (-1, After) to a resolved offset was searched and returned an
\* interval; a query from (-1, Before) would have been given up as inverted.
InversionReadsAfterAsStartWitness ==
    /\ Called("findOverlappingIntervals")
    /\ call.start = SequenceStart
    /\ call.end.pos # -1
    /\ ~TreatedAsInverted
    /\ results # <<>>

\* C20: whatever add, remove and query calls were made, no interval of the
\* Transient type is in the tree and none is in the result of a query.
NoTransientStoredOrReturned ==
    \A i \in Range(intervalTree) \cup Range(results) :
        i.intervalType # "Transient"

AddOfStoredFailsLoudly ==
    /\ (Called("add") /\ call.interval \in Range(before))
            => call.threw /\ intervalTree = before
    /\ NoDuplicates(intervalTree)

\* compare is start-major and end-minor on a and b, and 0 exactly when both
\* compareStart and compareEnd are.
StartMajorEndMinor(a, b) ==
    /\ compare(a, b) \in {-1, 0, 1}
    /\ compare(a, b) = 0 - compare(b, a)
    /\ compareStart(a, b) # 0 => compare(a, b) = compareStart(a, b)
    /\ compareStart(a, b) = 0 => compare(a, b) = compareEnd(a, b)
    /\ compare(a, b) = 0 <=> (compareStart(a, b) = 0 /\ compareEnd(a, b) = 0)
    /\ compare(a, b) = 0 <=> (a.start = b.start /\ a.end = b.end)

QueriesReturnStoredIntervals ==
    (Called("findOverlappingIntervals") \/ Called("gatherIterationResults"))
        => /\ Range(Visited) \subseteq registered
           /\ Range(Visited) \subseteq Range(intervalTree)

\* A gather by start and end that appended one of two stored intervals.
QueriesReturnStoredIntervalsWitness ==
    /\ GatherCall(TRUE, TRUE)
    /\ Len(Visited) = 1
    /\ Cardinality(registered) = 2
    /\ Visited[1].intervalType = "Persistent"

\* C25: a query whose start and end have the same resolved offset is not
\* treated as inverted whatever their sides, so on a populated tree
\* findOverlappingIntervals goes on to the overlap search.
EqualOffsetsAreSearched ==
    (/\ Called("findOverlappingIntervals")
     /\ call.start.pos # -1
     /\ call.start.pos = call.end.pos
     /\ registered # {})
        => /\ ~TreatedAsInverted
           /\ calls = <<"isEmpty", "create", "match">>
           /\ results = match(intervalTree, [id |-> "transient",
                                             start |-> call.start,
                                             end |-> call.end,
                                             intervalType |-> "Transient"])

\* A query from (p, After) to (p, Before) was searched and returned an
\* interval.
EqualOffsetsAreSearchedWitness ==
    /\ Called("findOverlappingIntervals")
    /\ call.start.pos # -1
    /\ call.start.pos = call.end.pos
    /\ call.start.side = "After"
    /\ call.end.side = "Before"
    /\ "match" \in Range(calls)
    /\ results # <<>>

\* C26: a query from the start of the sequence to its end is not treated as
\* inverted and on a populated tree returns every stored interval, each once.
WholeSequenceQueryReturnsAll ==
    (/\ Called("findOverlappingIntervals")
     /\ call.start = normalizeSequencePlace(<<"start">>)
     /\ call.end = normalizeSequencePlace(<<"end">>)
     /\ registered # {})
        => /\ ~TreatedAsInverted
           /\ Range(results) = registered
           /\ NoDuplicates(results)

\* The query from "start" to "end" returned the three stored intervals, one
\* of which lies at the start of the sequence and one at its end.
WholeSequenceQueryWitness ==
    /\ Called("findOverlappingIntervals")
    /\ call.start = SequenceStart
    /\ call.end = SequenceEnd
    /\ Len(results) = 3
    /\ \E i \in Range(results) : i.end = SequenceStart
    /\ \E i \in Range(results) : i.start = SequenceEnd

\* A place that normalises to the position p.
PlaceOf(p) == <<"interior", p.pos, p.side>>

\* What gatherIterationResults appends to an empty array on the tree as it is,
\* start and end being the ones of the last call where wanted and absent
\* where not.
Gathered(iteratesForward, withStart, withEnd) ==
    gatherIterationResults(intervalTree, <<>>, iteratesForward,
        IF withStart THEN PlaceOf(call.start) ELSE undefined,
        IF withEnd THEN PlaceOf(call.end) ELSE undefined).value

\* C27: the set gathered with both start = S and end = E is the intersection
\* of the set gathered with start = S alone and the set gathered with end = E
\* alone.
GatherByBothIsIntersection ==
    GatherCall(TRUE, TRUE)
        => \A iteratesForward \in BOOLEAN :
            /\ Range(Visited) = Range(Gathered(iteratesForward, TRUE, TRUE))
            /\ Range(Visited)
                = Range(Gathered(iteratesForward, TRUE, FALSE))
                    \cap Range(Gathered(iteratesForward, FALSE, TRUE))

\* A gather by S and E appended one interval; gathering by S alone yields it
\* and another, gathering by E alone yields it and a third.
GatherByBothIsIntersectionWitness ==
    /\ GatherCall(TRUE, TRUE)
    /\ Len(Visited) = 1
    /\ Len(Gathered(TRUE, TRUE, FALSE)) = 2
    /\ Len(Gathered(TRUE, FALSE, TRUE)) = 2

\* C28: on a populated tree, with start supplied and end supplied or not, the
\* sequence gathered backward is the exact reverse of the sequence gathered
\* forward.
BackwardPrunedWalkIsReverse ==
    (/\ Called("gatherIterationResults")
     /\ call.hasStart
     /\ ~call.iteratesForward
     /\ registered # {})
        => Visited = Reverse(Gathered(TRUE, TRUE, call.hasEnd))

\* A backward gather by start that appended three intervals with three
\* different keys.
BackwardPrunedWalkWitness ==
    /\ GatherCall(TRUE, FALSE)
    /\ ~call.iteratesForward
    /\ Len(Visited) = 3
    /\ compare(Visited[1], Visited[2]) > 0
    /\ compare(Visited[2], Visited[3]) > 0

QueryNames ==
    {"findOverlappingIntervals", "gatherIterationResults", "map", "mapUntil"}

\* The calls on the tree that change it.
TreeMutators == {"put", "removeExisting"}

\* C29: findOverlappingIntervals, gatherIterationResults, map and mapUntil
\* are read-only: over every step that is one of these calls the tree, the
\* stored set and the forward traversal order stay as they were, and the call
\* asks nothing of the tree that changes it.
QueriesAreReadOnly ==
    [][(call = Idle /\ call'.op \in QueryNames)
            => /\ intervalTree' = intervalTree
               /\ registered' = registered
               /\ Range(intervalTree') = Range(intervalTree)
               /\ treeMap(intervalTree') = treeMap(intervalTree)
               /\ before' = intervalTree
               /\ Range(calls') \cap TreeMutators = {}]_vars

\* mapUntil was stopped at the first of three stored intervals and the tree
\* is as it was before the call.
QueriesAreReadOnlyWitness ==
    /\ Called("mapUntil")
    /\ Len(results) = 1
    /\ Len(intervalTree) = 3
    /\ intervalTree = before

\* C30: gatherIterationResults only appends: the elements the array held
\* before the call are the beginning of the array after it, in the same
\* order, and on an empty index the array is left as it was whatever
\* iteratesForward, start and end are.
GatherOnlyAppends ==
    Called("gatherIterationResults")
        => /\ IsPrefix(call.prior, results)
           /\ registered = {} => results = call.prior

\* A backward gather by start appended two intervals behind the element the
\* array held.
GatherOnlyAppendsWitness ==
    /\ GatherCall(TRUE, FALSE)
    /\ ~call.iteratesForward
    /\ Len(call.prior) = 1
    /\ Len(results) = 3
    /\ results[1] = call.prior[1]

====
